---- MODULE Spec2Model ----
(***************************************************************************)
(* dyntamic: DyntamicFactory compiles a JSON-Schema-like dict into a       *)
(* pydantic model, recursing into the definitions that "$ref" pointers     *)
(* name; create_json_schema_from_raw_json infers such a schema from a      *)
(* template sample.  Source: src/src/dyntamic/factory.py.                  *)
(*                                                                         *)
(* A Python str is a sequence of one-character strings, so that strip(),   *)
(* capitalize() and title() are computed character by character.  A dict   *)
(* whose order is never observed is a function; a dict whose iteration     *)
(* order is observed (properties, model_fields, the sample) is a sequence  *)
(* of [key, val] entries with unique keys.                                 *)
(***************************************************************************)
EXTENDS Integers, Sequences, FiniteSets, TLC

VARIABLES raw_json, json_schema, stack, pc, outcome, model, history

vars == <<raw_json, json_schema, stack, pc, outcome, model, history>>

---------------------------------------------------------------------------
(* String literals of the source.                                          *)

K_title == <<"t", "i", "t", "l", "e">>
K_type == <<"t", "y", "p", "e">>
K_required == <<"r", "e", "q", "u", "i", "r", "e", "d">>
K_properties == <<"p", "r", "o", "p", "e", "r", "t", "i", "e", "s">>
K_defs == <<"$", "d", "e", "f", "s">>
K_ref == <<"$", "r", "e", "f">>
K_items == <<"i", "t", "e", "m", "s">>
T_object == <<"o", "b", "j", "e", "c", "t">>
T_string == <<"s", "t", "r", "i", "n", "g">>
T_array == <<"a", "r", "r", "a", "y">>
T_boolean == <<"b", "o", "o", "l", "e", "a", "n">>
T_integer == <<"i", "n", "t", "e", "g", "e", "r">>
T_float == <<"f", "l", "o", "a", "t">>
T_number == <<"n", "u", "m", "b", "e", "r">>
DefaultRefTemplate == <<"#", "/", "$", "d", "e", "f", "s", "/">>

---------------------------------------------------------------------------
(* Python built-ins the source calls.                                      *)
(* Bounds of the inputs. *)
MaxDefs == 2

Lowers == <<"a", "b", "c", "d", "e", "f", "g", "h", "i", "j", "k", "l", "m",
            "n", "o", "p", "q", "r", "s", "t", "u", "v", "w", "x", "y", "z">>

Uppers == <<"A", "B", "C", "D", "E", "F", "G", "H", "I", "J", "K", "L", "M",
            "N", "O", "P", "Q", "R", "S", "T", "U", "V", "W", "X", "Y", "Z">>

IsLower(c) == \E i \in DOMAIN Lowers : Lowers[i] = c

IsUpper(c) == \E i \in DOMAIN Uppers : Uppers[i] = c

IsAlpha(c) == IsLower(c) \/ IsUpper(c)

ToUpper(c) ==
    IF IsLower(c) THEN Uppers[CHOOSE i \in DOMAIN Lowers : Lowers[i] = c] ELSE c

ToLower(c) ==
    IF IsUpper(c) THEN Lowers[CHOOSE i \in DOMAIN Uppers : Uppers[i] = c] ELSE c

CharsOf(s) == {s[i] : i \in DOMAIN s}

(* str.strip(chars): chars is a SET of characters, not a prefix; leading    *)
(* and trailing characters that occur in it are dropped, so what is left    *)
(* runs from the first to the last character that does not occur in it.     *)
StrStrip(s, chars) ==
    LET kept == {i \in DOMAIN s : s[i] \notin CharsOf(chars)} IN
    IF kept = {} THEN <<>>
    ELSE SubSeq(s, CHOOSE i \in kept : \A j \in kept : i <= j,
                   CHOOSE i \in kept : \A j \in kept : i >= j)

(* str.capitalize(): first character upper-cased, the rest lower-cased. *)
Capitalize(s) ==
    [i \in DOMAIN s |-> IF i = 1 THEN ToUpper(s[i]) ELSE ToLower(s[i])]

(* str.replace(old, new) for one-character old and new. *)
Replace(s, old, new) == [i \in DOMAIN s |-> IF s[i] = old THEN new ELSE s[i]]

(* str.title(): a letter after a non-letter is upper-cased, others lower. *)
StrTitle(s) ==
    [i \in DOMAIN s |->
        IF i = 1 \/ ~IsAlpha(s[i - 1]) THEN ToUpper(s[i]) ELSE ToLower(s[i])]

(* dict.get(key, default) is written  IF key \in DOMAIN d THEN d[key] ELSE .. *)
(* at each use; a | b  (dict union, right operand wins) is DictUnion.      *)
DictUnion(a, b) == b @@ a

(* Insertion-ordered dict: keys in order, lookup, item assignment. *)
OdKeys(d) == [i \in DOMAIN d |-> d[i].key]

OdHas(d, k) == \E i \in DOMAIN d : d[i].key = k

OdGet(d, k) == d[CHOOSE i \in DOMAIN d : d[i].key = k].val

OdSet(d, k, v) ==
    IF OdHas(d, k)
    THEN [i \in DOMAIN d |-> IF d[i].key = k THEN [key |-> k, val |-> v] ELSE d[i]]
    ELSE Append(d, [key |-> k, val |-> v])

---------------------------------------------------------------------------
(* DyntamicFactory                                                         *)

(* The interpreter's limit on nested make() activations. *)
MaxDepth == MaxDefs + 2

(* The values of TYPES and the other field types: Python type objects. *)
PyType(n) == [tag |-> "type", py |-> n]

PyNone == [tag |-> "None"]

PyFalse == [tag |-> "False"]

PyList(s) == [tag |-> "list", elems |-> s]

TYPES ==
    (T_string :> PyType("str")) @@ (T_array :> PyType("list")) @@
    (T_boolean :> PyType("bool")) @@ (T_integer :> PyType("int")) @@
    (T_float :> PyType("float")) @@ (T_number :> PyType("float"))

(* create_model(name, **fields): the synthesized model class. *)
create_model(name, fields) == [tag |-> "model", name |-> name, fields |-> fields]

(* __init__: the instance attributes, and idx, the position of make()'s    *)
(* for-loop over raw_fields (1-based; Len+1 when the loop is over).        *)
DyntamicFactory(schema, ref_template) ==
    [class_name   |-> IF K_title \in DOMAIN schema THEN schema[K_title] ELSE <<>>,
     required     |-> IF K_required \in DOMAIN schema
                      THEN PyList(schema[K_required]) ELSE PyFalse,
     raw_fields   |-> schema[K_properties],
     ref_template |-> ref_template,
     definitions  |-> IF K_defs \in DOMAIN schema THEN schema[K_defs] ELSE <<>>,
     model_fields |-> <<>>,
     idx          |-> 1]

(* One activation of make(): self is the factory instance, call the name   *)
(* the enclosing _make_nested was called with (<<>> for the outermost).    *)
Frame(self, call) == [self |-> self, call |-> call]

Top == stack[Len(stack)]

Cur == Top.self

LoopDone(self) == self.idx > Len(self.raw_fields)

CurField(self) == self.raw_fields[self.idx].key

CurSpec(self) == self.raw_fields[self.idx].val

(* line 53: "$ref" in self.raw_fields[field] *)
IsRef(spec) == K_ref \in DOMAIN spec

(* line 57: self.TYPES.get(self.raw_fields[field].get("type")) *)
FactoryOf(spec) ==
    IF K_type \in DOMAIN spec /\ spec[K_type] \in DOMAIN TYPES
    THEN TYPES[spec[K_type]]
    ELSE PyNone

(* lines 58-60: factory == list, and self.ref_template in items, the KEY    *)
(* membership test of a dict (items None is the TypeError of ItemsMissing). *)
ItemsMissing(spec) == FactoryOf(spec) = PyType("list") /\ K_items \notin DOMAIN spec

ItemsNamesTemplate(self, spec) ==
    /\ FactoryOf(spec) = PyType("list")
    /\ K_items \in DOMAIN spec
    /\ self.ref_template \in DOMAIN spec[K_items]

(* _make_field with model_fields kept as a list of entries that is only    *)
(* appended to.                                                            *)
_make_field_append(self, field_type, field_name) ==
    IF self.required.tag = "False"
    THEN [raised |-> "TypeError", self |-> self]
    ELSE IF \E i \in DOMAIN self.required.elems : self.required.elems[i] = field_name
    THEN [raised |-> "no",
          self |-> [self EXCEPT !.model_fields =
                       Append(@, [key |-> field_name,
                                  val |-> [type |-> field_type, required |-> TRUE]])]]
    ELSE [raised |-> "NameError", self |-> self]

(* lines 77-85.  Optional is not imported by the module (lines 1-6), so the *)
(* else branch raises NameError before the tuple is built; required is      *)
(* False when the schema has no "required" and  x in False  is a TypeError. *)
_make_field(self, field_type, field_name) ==
    IF self.required.tag = "False"
    THEN [raised |-> "TypeError", self |-> self]
    ELSE IF \E i \in DOMAIN self.required.elems : self.required.elems[i] = field_name
    THEN [raised |-> "no",
          self |-> [self EXCEPT !.model_fields =
                       OdSet(@, field_name, [type |-> field_type, required |-> TRUE])]]
    ELSE [raised |-> "NameError", self |-> self]

(* lines 54-55 and 61: the name _make_nested is called with. *)
NestedName(self, spec) ==
    IF IsRef(spec)
    THEN StrStrip(spec[K_ref], self.ref_template)
    ELSE spec[K_items][self.ref_template]

(* _make_nested with a guard on the names already being compiled. *)
_make_nested_guarded(stk, model_name) ==
    LET self == stk[Len(stk)].self IN
    IF model_name \notin DOMAIN self.definitions
    THEN [raised |-> "TypeError", stack |-> stk]
    ELSE IF \E i \in DOMAIN stk : stk[i].call = model_name
    THEN [raised |-> "CyclicSchemaError", stack |-> stk]
    ELSE IF Len(stk) >= MaxDepth
    THEN [raised |-> "RecursionError", stack |-> stk]
    ELSE [raised |-> "no",
          stack |-> Append(stk,
              Frame(DyntamicFactory(
                        DictUnion(K_defs :> self.definitions,
                                  self.definitions[model_name]),
                        self.ref_template),
                    model_name))]

(* lines 69-73: the nested factory is built and its make() entered.         *)
(* definitions.get(model_name) is None for an unknown name and  dict | None *)
(* is a TypeError; a call beyond MaxDepth frames is the RecursionError of   *)
(* the interpreter's stack limit.                                           *)
_make_nested(stk, model_name) ==
    LET self == stk[Len(stk)].self IN
    IF model_name \notin DOMAIN self.definitions
    THEN [raised |-> "TypeError", stack |-> stk]
    ELSE IF Len(stk) >= MaxDepth
    THEN [raised |-> "RecursionError", stack |-> stk]
    ELSE [raised |-> "no",
          stack |-> Append(stk,
              Frame(DyntamicFactory(
                        DictUnion(K_defs :> self.definitions,
                                  self.definitions[model_name]),
                        self.ref_template),
                    model_name))]

(* One step of make() ends either in an exception, which leaves make() and *)
(* of whose activations only the outermost factory object survives, or in   *)
(* the stack stk.                                                           *)
StepTo(raised, stk) ==
    /\ outcome' = IF raised = "no" THEN outcome ELSE raised
    /\ pc' = IF raised = "no" THEN pc ELSE "done"
    /\ stack' = IF raised = "no" THEN stk ELSE <<stack[1]>>
    /\ UNCHANGED <<raw_json, json_schema, model, history>>

ReplaceTop(stk, self) == [stk EXCEPT ![Len(stk)].self = self]

Advance(self) == [self EXCEPT !.idx = @ + 1]

(* make(), lines 56-62, for a property that is no "$ref" and whose items do *)
(* not name the template: one iteration of the for-loop.                    *)
MakePrimitive ==
    /\ pc = "make"
    /\ ~LoopDone(Cur)
    /\ ~IsRef(CurSpec(Cur))
    /\ ~ItemsNamesTemplate(Cur, CurSpec(Cur))
    /\ \E r \in {IF ItemsMissing(CurSpec(Cur))
                  THEN [raised |-> "TypeError", self |-> Cur]
                  ELSE _make_field(Cur, FactoryOf(CurSpec(Cur)), CurField(Cur))} :
          StepTo(r.raised, ReplaceTop(stack, Advance(r.self)))

(* make(), lines 53-55 and 60-61: the call of _make_nested up to the entry  *)
(* of level.make().                                                         *)
CallNested ==
    /\ pc = "make"
    /\ ~LoopDone(Cur)
    /\ IsRef(CurSpec(Cur)) \/ ItemsNamesTemplate(Cur, CurSpec(Cur))
    /\ \E model_name \in {NestedName(Cur, CurSpec(Cur))} :
          \E r \in {_make_nested(stack, model_name)} :
             StepTo(r.raised, r.stack)

(* level.make() returns (its own create_model result is dropped), then      *)
(* lines 74-75, and for the array branch line 62, which assigns the same    *)
(* key again with the list type.                                            *)
ReturnNested ==
    /\ pc = "make"
    /\ Len(stack) > 1
    /\ LoopDone(Cur)
    /\ LET caller == stack[Len(stack) - 1].self
           rest   == SubSeq(stack, 1, Len(stack) - 1)
           nested == create_model(Top.call, Cur.model_fields)
           r      == _make_field(caller, nested, CurField(caller))
           r2     == IF IsRef(CurSpec(caller)) \/ r.raised # "no"
                     THEN r
                     ELSE _make_field(r.self, FactoryOf(CurSpec(caller)),
                                      CurField(caller))
       IN \E done \in {r2} :
             StepTo(done.raised, ReplaceTop(rest, Advance(done.self)))

(* lines 63-65: the outermost make() returns the model. *)
ReturnModel ==
    /\ pc = "make"
    /\ Len(stack) = 1
    /\ LoopDone(Cur)
    /\ model' = create_model(Cur.class_name, Cur.model_fields)
    /\ outcome' = "returned"
    /\ pc' = "done"
    /\ UNCHANGED <<raw_json, json_schema, stack, history>>

(* make() as a function of the factory it is called on: the same lines as  *)
(* the four steps above, run to completion.  depth counts the activations  *)
(* below this one.  The result is [raised, self].                          *)
RECURSIVE RunMake(_, _)
RunMake(self, depth) ==
    IF LoopDone(self) THEN [raised |-> "no", self |-> self]
    ELSE LET spec  == CurSpec(self)
             field == CurField(self)
         IN
         IF IsRef(spec) \/ ItemsNamesTemplate(self, spec)
         THEN LET c == _make_nested(
                          [i \in 1..depth |-> Frame(self, <<>>)], NestedName(self, spec))
              IN IF c.raised # "no" THEN [raised |-> c.raised, self |-> self]
                 ELSE LET lvl == RunMake(c.stack[depth + 1].self, depth + 1)
                          r   == _make_field(self,
                                     create_model(NestedName(self, spec),
                                                  lvl.self.model_fields), field)
                          r2  == IF IsRef(spec) THEN r
                                 ELSE _make_field(r.self, FactoryOf(spec), field)
                      IN IF lvl.raised # "no" THEN [raised |-> lvl.raised, self |-> self]
                         ELSE IF r.raised # "no" THEN r
                         ELSE IF r2.raised # "no" THEN r2
                         ELSE RunMake(Advance(r2.self), depth)
         ELSE IF ItemsMissing(spec) THEN [raised |-> "TypeError", self |-> self]
         ELSE LET r == _make_field(self, FactoryOf(spec), field) IN
              IF r.raised # "no" THEN r ELSE RunMake(Advance(r.self), depth)

(* DyntamicFactory(schema).make(): [raised, model]. *)
Compile(schema) ==
    LET r == RunMake(DyntamicFactory(schema, DefaultRefTemplate), 1) IN
    [raised |-> r.raised,
     model  |-> IF r.raised = "no"
                THEN create_model(r.self.class_name, r.self.model_fields)
                ELSE PyNone]

---------------------------------------------------------------------------
(* The schema inferrer, lines 88-158.  json.loads is taken as done: the     *)
(* sample is the parsed mapping, a value being PyStr(type name) or          *)
(* PyDict(ordered mapping).                                                 *)

PyStr(s) == [tag |-> "str", s |-> s]

PyDict(d) == [tag |-> "dict", d |-> d]

(* dict.update(other) on an unordered dict: other's entries win. *)
DictUpdate(d, other) == other @@ d

RECURSIVE process_dict(_)
RECURSIVE process_value(_, _)
(* lines 88-113: (property, definition or None, deeper definitions). *)
process_value(key, value) ==
    IF value.tag = "dict"
    THEN LET nested_key == Capitalize(key)
             nested     == process_dict(value.d)
         IN [prop |-> (K_ref :> (DefaultRefTemplate \o nested_key)),
             def_ |-> (nested_key :>
                         ((K_properties :> nested.properties) @@
                          (K_required :> nested.required) @@
                          (K_title :> nested_key) @@
                          (K_type :> T_object))),
             defs |-> nested.defs]
    ELSE [prop |-> ((K_title :> StrTitle(Replace(key, "_", " "))) @@
                    (K_type :> value.s)),
          def_ |-> <<>>,
          defs |-> <<>>]

(* lines 121-131: the loop body, applied to entries i..Len(data). *)
RECURSIVE ProcessEntries(_, _, _)
ProcessEntries(data, i, acc) ==
    IF i > Len(data) THEN acc
    ELSE LET r == process_value(data[i].key, data[i].val) IN
         ProcessEntries(data, i + 1,
            [properties |-> OdSet(acc.properties, data[i].key, r.prop),
             required   |-> Append(acc.required, data[i].key),
             defs       |-> DictUpdate(DictUpdate(acc.defs, r.def_), r.defs)])

(* lines 116-137 *)
process_dict(data) ==
    ProcessEntries(data, 1, [properties |-> <<>>, required |-> <<>>, defs |-> <<>>])

(* lines 140-152 *)
create_json_schema_from_raw_json(sample, title) ==
    LET r == process_dict(sample) IN
    (K_defs :> r.defs) @@ (K_properties :> r.properties) @@
    (K_required :> r.required) @@ (K_title :> title) @@ (K_type :> T_object)

---------------------------------------------------------------------------
(* Bounded inputs.                                                          *)

MaxProps == 2

N_Address == <<"A", "d", "d", "r", "e", "s", "s">>
N_Addr == <<"A", "d", "d", "r">>
N_Item == <<"I", "t", "e", "m">>
N_Person == <<"P", "e", "r", "s", "o", "n">>
F_name == <<"n", "a", "m", "e">>
F_age == <<"a", "g", "e">>
F_tag == <<"t", "a", "g">>
F_misc == <<"m", "i", "s", "c">>
F_city == <<"c", "i", "t", "y">>
F_next == <<"n", "e", "x", "t">>
F_first_name == <<"f", "i", "r", "s", "t", "_", "n", "a", "m", "e">>
F_meta == <<"m", "e", "t", "a">>
F_address == <<"a", "d", "d", "r", "e", "s", "s">>
F_count == <<"c", "o", "u", "n", "t">>
T_date == <<"d", "a", "t", "e">>

DefNames == {N_Address, N_Addr, N_Item}

FieldNames == <<F_name, F_age, F_tag, F_misc>>

Entry(k, v) == [key |-> k, val |-> v]

Typed(t) == (K_type :> t)

Pointer(n) == DefaultRefTemplate \o n

RefTo(n) == (K_ref :> Pointer(n))

ArrayOf(items) == (K_type :> T_array) @@ (K_items :> items)

PrimSpecs ==
    {Typed(T_string), Typed(T_integer), Typed(T_date), Typed(T_array),
     ArrayOf(Typed(T_string))}

RefSpecs ==
    {Typed(T_string)} \cup {RefTo(n) : n \in DefNames}
        \cup {ArrayOf(RefTo(N_Item)), ArrayOf(DefaultRefTemplate :> N_Item)}

(* Property tables of n entries named FieldNames[1..n], values from specs. *)
PropTables(specs, n) ==
    {[i \in 1..n |-> Entry(FieldNames[i], f[i])] : f \in [1..n -> specs]}

KeysIn(props, S) ==
    LET RECURSIVE Pick(_)
        Pick(i) == IF i > Len(props) THEN <<>>
                   ELSE (IF i \in S THEN <<props[i].key>> ELSE <<>>) \o Pick(i + 1)
    IN Pick(1)

(* The "required" lists tried for a property table: every sub-list. *)
RequiredLists(props) == {KeysIn(props, S) : S \in SUBSET (DOMAIN props)}

SchemaOf(title, props, req, defs) ==
    (K_title :> title) @@ (K_type :> T_object) @@ (K_properties :> props)
        @@ (K_required :> req) @@ (K_defs :> defs)

WithoutRequired(schema) ==
    [k \in DOMAIN schema \ {K_required} |-> schema[k]]

Definition(title, props, req) ==
    (K_title :> title) @@ (K_type :> T_object) @@ (K_properties :> props)
        @@ (K_required :> req)

(* Bodies of the definitions: at most two properties. *)
DefBodies ==
    {[props |-> <<>>, req |-> <<>>],
     [props |-> <<Entry(F_city, Typed(T_string))>>, req |-> <<F_city>>],
     [props |-> <<Entry(F_city, Typed(T_string))>>, req |-> <<>>]}
    \cup {[props |-> <<Entry(F_next, RefTo(n))>>, req |-> <<F_next>>] : n \in DefNames}
    \cup {[props |-> <<Entry(F_city, Typed(T_string)), Entry(F_next, RefTo(n))>>,
           req |-> <<F_city, F_next>>] : n \in DefNames}

DefTables ==
    UNION {{[n \in K |-> Definition(n, b[n].props, b[n].req)] : b \in [K -> DefBodies]}
           : K \in {K \in SUBSET DefNames : Cardinality(K) <= MaxDefs}}

MaxCalls == 2

N_DynamicModel == <<"D", "y", "n", "a", "m", "i", "c", "M", "o", "d", "e", "l">>

(* Template samples: a key maps to a type name or to a nested mapping. *)
SampleKeys == {F_first_name, F_meta, F_address}

NestedSamples ==
    {<<>>,
     <<Entry(F_count, PyStr(T_integer))>>,
     <<Entry(F_count, PyStr(T_integer)), Entry(F_city, PyStr(T_string))>>,
     <<Entry(F_meta, PyDict(<<Entry(F_count, PyStr(T_integer))>>))>>}

SampleValues ==
    {PyStr(T_string), PyStr(T_integer), PyStr(T_array)}
        \cup {PyDict(d) : d \in NestedSamples}

Samples ==
    UNION {{s \in [1..n -> {Entry(k, v) : k \in SampleKeys, v \in SampleValues}]
              : \A i, j \in 1..n : s[i].key = s[j].key => i = j}
           : n \in 1..MaxProps}

---------------------------------------------------------------------------
(* The state machine.                                                       *)

NewCall(self) == <<Frame(self, <<>>)>>

Start(schema) ==
    /\ raw_json = <<>>
    /\ json_schema = schema
    /\ stack = NewCall(DyntamicFactory(json_schema, DefaultRefTemplate))
    /\ pc = "make"
    /\ outcome = "none"
    /\ model = PyNone
    /\ history = <<>>

(* Schemas of primitive properties only, any sub-list required or none. *)
InitPrim ==
    \E n \in 0..MaxProps : \E p \in PropTables(PrimSpecs, n) :
        \/ \E r \in RequiredLists(p) : Start(SchemaOf(N_Person, p, r, <<>>))
        \/ Start(WithoutRequired(SchemaOf(N_Person, p, <<>>, <<>>)))

(* Schemas of n properties over specs with a definition table, every        *)
(* property required.                                                       *)
InitRef(specs, n) ==
    \E p \in PropTables(specs, n) : \E d \in DefTables :
        Start(SchemaOf(N_Person, p, OdKeys(p), d))

InitSample(samples) ==
    /\ raw_json \in samples
    /\ json_schema = <<>>
    /\ stack = <<>>
    /\ pc = "infer"
    /\ outcome = "none"
    /\ model = PyNone
    /\ history = <<>>

Init ==
    \/ InitPrim
    \/ \E n \in 1..MaxProps : InitRef(RefSpecs, n)
    \/ InitSample(Samples)

(* json_to_model, lines 155-158, up to the entry of make(). *)
Infer ==
    /\ pc = "infer"
    /\ json_schema' = create_json_schema_from_raw_json(raw_json, N_DynamicModel)
    /\ stack' = NewCall(DyntamicFactory(json_schema', DefaultRefTemplate))
    /\ pc' = "make"
    /\ UNCHANGED <<raw_json, outcome, model, history>>

Next ==
    \/ Infer
    \/ MakePrimitive
    \/ CallNested
    \/ ReturnNested
    \/ ReturnModel

Spec == Init /\ [][Next]_vars

(* make() called again once the previous call has ended: on the same        *)
(* factory instance (its attributes as the call left them, the for-loop     *)
(* from the start), or on a new factory over the same schema.               *)
Recorded(how) == [schema |-> json_schema, outcome |-> outcome, model |-> model,
                  next |-> how]

MakeAgain ==
    /\ pc = "done"
    /\ Len(history) < MaxCalls
    /\ history' = Append(history, Recorded("again"))
    /\ stack' = NewCall([stack[1].self EXCEPT !.idx = 1])
    /\ pc' = "make"
    /\ outcome' = "none"
    /\ model' = PyNone
    /\ UNCHANGED <<raw_json, json_schema>>

MakeFresh ==
    /\ pc = "done"
    /\ Len(history) < MaxCalls
    /\ history' = Append(history, Recorded("fresh"))
    /\ stack' = NewCall(DyntamicFactory(json_schema, DefaultRefTemplate))
    /\ pc' = "make"
    /\ outcome' = "none"
    /\ model' = PyNone
    /\ UNCHANGED <<raw_json, json_schema>>

MakeStep ==
    \/ MakePrimitive
    \/ CallNested
    \/ ReturnNested
    \/ ReturnModel

NextRepeat ==
    \/ MakePrimitive
    \/ CallNested
    \/ ReturnNested
    \/ ReturnModel
    \/ MakeAgain
    \/ MakeFresh

(* Schemas of primitive properties, or of one property with references. *)
InitRepeat == InitPrim \/ InitRef(RefSpecs, 1)

SpecRepeat == InitRepeat /\ [][NextRepeat]_vars

(* make() is sequential code: a step that can be taken is taken. *)
CycleSpecs == {Typed(T_string)} \cup {RefTo(n) : n \in DefNames}

(* One property, a string or a reference, over every definition table. *)
InitCycle == InitRef(CycleSpecs, 1)

SpecCycle == InitCycle /\ [][MakeStep]_vars /\ WF_vars(MakeStep)

---------------------------------------------------------------------------
(* Vocabulary of the properties.                                            *)

Done == pc = "done"

HandWritten == raw_json = <<>>

Properties == json_schema[K_properties]

Table == IF K_defs \in DOMAIN json_schema THEN json_schema[K_defs] ELSE <<>>

Required == IF K_required \in DOMAIN json_schema THEN json_schema[K_required] ELSE <<>>

InList(x, list) == \E i \in DOMAIN list : list[i] = x

(* A pointer with its prefix removed: the definition name it states. *)
NameOfPointer(ptr) == SubSeq(ptr, Len(DefaultRefTemplate) + 1, Len(ptr))

IsArrayOfRef(spec) ==
    /\ K_type \in DOMAIN spec /\ spec[K_type] = T_array
    /\ K_items \in DOMAIN spec /\ K_ref \in DOMAIN spec[K_items]

(* The definition names the $refs of a property table state. *)
NamesStated(props) ==
    {NameOfPointer(props[i].val[K_ref]) : i \in {j \in DOMAIN props : IsRef(props[j].val)}}
    \cup {NameOfPointer(props[i].val[K_items][K_ref])
            : i \in {j \in DOMAIN props : IsArrayOfRef(props[j].val)}}

IsKnownPrimitive(spec) ==
    /\ ~IsRef(spec)
    /\ K_type \in DOMAIN spec /\ spec[K_type] \in DOMAIN TYPES
    /\ spec[K_type] = T_array =>
          /\ K_items \in DOMAIN spec
          /\ DOMAIN spec[K_items] = {K_type}

IsUnknownPrimitive(spec) ==
    ~IsRef(spec) /\ (K_type \notin DOMAIN spec \/ spec[K_type] \notin DOMAIN TYPES)

(* The compiled field of the returned model, by name. *)
FieldOf(m, name) == OdGet(m.fields, name)

(* The step machine and the function form of make() give the same result. *)
StepsAgreeWithCompile ==
    Done => LET c == Compile(json_schema) IN
            IF c.raised = "no"
            THEN outcome = "returned" /\ model = c.model
            ELSE outcome = c.raised

---------------------------------------------------------------------------
(* C1: whenever make() is about to resolve a "$ref" whose pointer is the    *)
(* prefix followed by a name N of the definition table, the name it looks   *)
(* up in the table is N itself.                                             *)
C1_LooksUpStatedName ==
    (pc = "make" /\ ~LoopDone(Cur) /\ IsRef(CurSpec(Cur))
        /\ NameOfPointer(CurSpec(Cur)[K_ref]) \in DOMAIN Cur.definitions)
    => NestedName(Cur, CurSpec(Cur)) = NameOfPointer(CurSpec(Cur)[K_ref])

(* C2: when a property P of a hand-written schema is a "$ref" to a          *)
(* definition D of the table, make() returns a model and P's kind is a      *)
(* nested model with the same fields as compiling D directly with the same  *)
(* table passed down; in particular Person/Address gives a nested Address   *)
(* with one required str field city.                                        *)
DirectCompile(name) ==
    Compile(DictUnion(K_defs :> Table, Table[name]))

PersonAddress ==
    SchemaOf(N_Person, <<Entry(F_name, RefTo(N_Address))>>, <<F_name>>,
             N_Address :> Definition(N_Address, <<Entry(F_city, Typed(T_string))>>,
                                      <<F_city>>))

C2_NestedEqualsDirect ==
    (Done /\ HandWritten) =>
        /\ \A i \in DOMAIN Properties :
              (/\ IsRef(Properties[i].val)
               /\ NameOfPointer(Properties[i].val[K_ref]) \in DOMAIN Table
               /\ DirectCompile(NameOfPointer(Properties[i].val[K_ref])).raised = "no"
               /\ \A j \in DOMAIN Properties : j # i => IsKnownPrimitive(Properties[j].val))
              => /\ outcome = "returned"
                 /\ FieldOf(model, Properties[i].key).type.tag = "model"
                 /\ FieldOf(model, Properties[i].key).type.fields =
                       DirectCompile(NameOfPointer(Properties[i].val[K_ref])).model.fields
        /\ json_schema = PersonAddress =>
              /\ outcome = "returned"
              /\ FieldOf(model, F_name).type.fields =
                    <<Entry(F_city, [type |-> PyType("str"), required |-> TRUE])>>

(* C3: when every property of a hand-written schema is a known primitive    *)
(* and some property is absent from "required", make() returns a model and  *)
(* that property's field is optional (not required).                        *)
C3_OptionalFieldCompiles ==
    (Done /\ HandWritten /\ K_required \in DOMAIN json_schema
        /\ \A i \in DOMAIN Properties : IsKnownPrimitive(Properties[i].val))
    => \A i \in DOMAIN Properties :
          ~InList(Properties[i].key, Required)
          => /\ outcome = "returned"
             /\ ~FieldOf(model, Properties[i].key).required

(* C4: when a hand-written schema's properties state a "$ref" (directly or  *)
(* as array items) whose name is no key of the definition table, make()     *)
(* ends in UnresolvedReferenceError and returns no model.                   *)
C4_UnresolvedReferenceRaises ==
    (Done /\ HandWritten /\ NamesStated(Properties) \ DOMAIN Table # {})
    => outcome = "UnresolvedReferenceError" /\ model = PyNone

(* C5: when a property P is an array whose items are a "$ref" to a          *)
(* definition D of the table (D compiling on its own, the other properties  *)
(* known primitives), make() returns a model in which P's kind is a list of *)
(* the nested model of D, not the plain list type.                          *)
ListOf(m) == [tag |-> "List", of |-> m]

C5_ArrayOfRefIsListOfModel ==
    (Done /\ HandWritten) =>
        \A i \in DOMAIN Properties :
           (/\ IsArrayOfRef(Properties[i].val)
            /\ NameOfPointer(Properties[i].val[K_items][K_ref]) \in DOMAIN Table
            /\ DirectCompile(NameOfPointer(Properties[i].val[K_items][K_ref])).raised = "no"
            /\ \A j \in DOMAIN Properties : j # i => IsKnownPrimitive(Properties[j].val))
           => /\ outcome = "returned"
              /\ FieldOf(model, Properties[i].key).type =
                    ListOf(create_model(
                        NameOfPointer(Properties[i].val[K_items][K_ref]),
                        DirectCompile(NameOfPointer(
                            Properties[i].val[K_items][K_ref])).model.fields))

(* C6: when every property is a known primitive (any sub-list required),    *)
(* make() returns a model with one field per declared property, in the      *)
(* declared order.                                                          *)
C6_FieldCountAndOrder ==
    (Done /\ HandWritten /\ K_required \in DOMAIN json_schema
        /\ \A i \in DOMAIN Properties : IsKnownPrimitive(Properties[i].val))
    => /\ outcome = "returned"
       /\ Len(model.fields) = Len(Properties)
       /\ OdKeys(model.fields) = OdKeys(Properties)

(* C7: no factory ever stores None as a field's kind, and a schema with a   *)
(* property of an unknown type name ends in an error, not in a model.       *)
C7_UnknownTypeRaises ==
    /\ \A f \in DOMAIN stack : \A i \in DOMAIN stack[f].self.model_fields :
          stack[f].self.model_fields[i].val.type # PyNone
    /\ (Done /\ HandWritten
          /\ \E i \in DOMAIN Properties : IsUnknownPrimitive(Properties[i].val))
       => outcome # "returned"

(* C8: for a template sample, inferring the schema and compiling it returns *)
(* the model written by hand from the sample: one required field per key,   *)
(* in key order, its kind by TYPES, or for a nested mapping under k the     *)
(* model named k.capitalize() written the same way from that mapping.       *)
RECURSIVE ByHand(_)
ByHand(sample) ==
    [i \in DOMAIN sample |->
        Entry(sample[i].key,
              [type |-> IF sample[i].val.tag = "dict"
                        THEN create_model(Capitalize(sample[i].key),
                                          ByHand(sample[i].val.d))
                        ELSE TYPES[sample[i].val.s],
               required |-> TRUE])]

C8_InferThenCompile ==
    (Done /\ ~HandWritten)
    => /\ outcome = "returned"
       /\ model = create_model(N_DynamicModel, ByHand(raw_json))

(* C9: compilation is repeatable and leaves its input alone: the schema    *)
(* is the one every earlier call saw, every factory on the stack holds the  *)
(* schema's own definition table, and a call that has ended has the same    *)
(* outcome and the same model as every earlier call on that schema, whether *)
(* made on the same factory or on a fresh one.                              *)
C9_Repeatable ==
    /\ \A h \in DOMAIN history : history[h].schema = json_schema
    /\ \A f \in DOMAIN stack : stack[f].self.definitions = Table
    /\ Done => \A h \in DOMAIN history :
                  history[h].outcome = outcome /\ history[h].model = model

(* A model with a nested model has been returned a third time, after a call *)
(* on the same factory and a call on a fresh one.                           *)
C9_Witness ==
    /\ Done /\ outcome = "returned"
    /\ Len(history) = 2
    /\ {history[h].next : h \in DOMAIN history} = {"again", "fresh"}
    /\ \E i \in DOMAIN model.fields : model.fields[i].val.type.tag = "model"

---------------------------------------------------------------------------
(* The nested compilations of make(): the names being compiled, outermost   *)
(* first, with the one the current property is about to request.            *)

RequestsNested(self) ==
    /\ ~LoopDone(self)
    /\ IsRef(CurSpec(self)) \/ ItemsNamesTemplate(self, CurSpec(self))
    /\ NestedName(self, CurSpec(self)) \in DOMAIN self.definitions

(* A request is the name looked up with the table it is looked up in. *)
PathNames ==
    [i \in 1..(Len(stack) - 1) |->
        [name |-> stack[i + 1].call, table |-> stack[i].self.definitions]]
        \o (IF RequestsNested(Cur)
            THEN <<[name |-> NestedName(Cur, CurSpec(Cur)), table |-> Cur.definitions]>>
            ELSE <<>>)

OnCycle ==
    /\ pc = "make"
    /\ \E i, j \in DOMAIN PathNames : i # j /\ PathNames[i] = PathNames[j]

(* The definitions a definition requests, as make() resolves the names. *)
Requests(defs, n) ==
    LET self == DyntamicFactory(DictUnion(K_defs :> defs, defs[n]), DefaultRefTemplate) IN
    {NestedName(self, self.raw_fields[i].val)
        : i \in {j \in DOMAIN self.raw_fields :
                    RequestsNested([self EXCEPT !.idx = j])}}

(* The definitions the $refs of a definition state, prefix removed. *)
States(defs, n) == NamesStated(defs[n][K_properties]) \cap DOMAIN defs

RECURSIVE ReachedIn(_, _, _, _)
ReachedIn(Edge(_, _), defs, from, k) ==
    IF k = 0 THEN from
    ELSE ReachedIn(Edge, defs, from \cup UNION {Edge(defs, n) : n \in from}, k - 1)

HasCycle(Edge(_, _), defs) ==
    \E n \in DOMAIN defs :
        n \in ReachedIn(Edge, defs, Edge(defs, n), Cardinality(DOMAIN defs))

Terminated == Done /\ outcome \in {"returned", "TypeError", "NameError"}

(* C10, as stated, on schemas every "$ref" of which states a key of the     *)
(* table, no name of which strip() changes and every property of which is   *)
(* required: when some definition of the table transitively states itself   *)
(* through "$ref" properties, make() ends only by the stack limit; when     *)
(* none does, make() ends by itself.                                        *)
StripKeeps(n) == StrStrip(Pointer(n), DefaultRefTemplate) = n

NamesResolve ==
    /\ NamesStated(Properties) \subseteq DOMAIN Table
    /\ \A m \in NamesStated(Properties) : StripKeeps(m)
    /\ \A n \in DOMAIN Table :
          /\ StripKeeps(n)
          /\ NamesStated(Table[n][K_properties]) \subseteq DOMAIN Table
          /\ \A m \in NamesStated(Table[n][K_properties]) : StripKeeps(m)
          /\ \A i \in DOMAIN Table[n][K_properties] :
                InList(Table[n][K_properties][i].key, Table[n][K_required])

C10_CyclicTableNeverEnds ==
    (Done /\ NamesResolve)
    => IF HasCycle(States, Table) THEN outcome = "RecursionError" ELSE Terminated

(* C10, amended: once make() requests the nested compilation of a           *)
(* definition that is already being compiled (the name being the one make() *)
(* looks up, in the same table), it never returns and never raises by       *)
(* itself, the request recurs until the stack limit; and when no definition *)
(* of the table can reach itself through the requests make() makes, make()  *)
(* ends by itself.                                                          *)
C10_RecursOnRevisit ==
    /\ [][OnCycle => (outcome' = "RecursionError" \/ OnCycle')]_vars
    /\ ~HasCycle(Requests, Table) => <>Terminated

(* A cycle has run into the stack limit. *)
C10_Witness == Done /\ outcome = "RecursionError"

====
